---- MODULE Spec2Model ----
(***************************************************************************)
(* A model of the annotation index of wow-api-mcp: the DataStore of        *)
(* src/data-store.mjs (load and the query methods) and the parsers of      *)
(* src/parsers/lua-annotations.mjs and src/parsers/ts-data.mjs.            *)
(*                                                                         *)
(* Strings are sequences of one-character strings, so that toLowerCase,    *)
(* toUpperCase and includes are computed and not assumed.  A JavaScript    *)
(* Map, and a plain object used as a table, is a sequence of               *)
(* [key, val] entries in insertion order.  Function objects live in        *)
(* store.objs and are referred to by their index (their identity), since   *)
(* the function index, the namespace lists and the widget method lists     *)
(* share the objects they hold.                                            *)
(***************************************************************************)
EXTENDS Integers, Sequences, FiniteSets, TLC

VARIABLES
    store,    \* the DataStore instance
    pc,       \* where load() stands: the pass it is in
    corpus,   \* the files of the extension, as far as load() has read them
    cursor,   \* how many Lua declarations the running load() has consumed
    round,    \* how many times load() has been started on this instance
    prior,    \* index content when the previous load() completed
    call,     \* the last query call and what it returned
    parse     \* the locals of the parser loop that is running

vars == <<store, pc, corpus, cursor, round, prior, call, parse>>

----------------------------------------------------------------------------
(* Bounds of the model.                                                    *)

MaxCorpus == 3
MaxQueryCorpus == 2
MaxReloadCorpus == 2
MaxLoads == 2
MaxBulk == 52
MaxEnumLines == 4
MaxEventLines == 3
MaxFlavorEntries == 2
MaxBitmask == 17
MaxReadCorpus == 2
MaxLuaLines == 3

----------------------------------------------------------------------------
(* Strings.                                                                *)

Null == <<>>

None == <<>>

Some(x) == <<x>>

S1(a) == <<a>>

S3(a, b, c) == <<a, b, c>>

LowerChar(c) ==
    CASE c = "A" -> "a"
      [] c = "B" -> "b"
      [] c = "E" -> "e"
      [] c = "F" -> "f"
      [] c = "G" -> "g"
      [] c = "L" -> "l"
      [] c = "N" -> "n"
      [] c = "O" -> "o"
      [] c = "U" -> "u"
      [] c = "V" -> "v"
      [] OTHER -> c

UpperChar(c) ==
    CASE c = "a" -> "A"
      [] c = "b" -> "B"
      [] c = "e" -> "E"
      [] c = "f" -> "F"
      [] c = "g" -> "G"
      [] c = "l" -> "L"
      [] c = "n" -> "N"
      [] c = "o" -> "O"
      [] c = "u" -> "U"
      [] c = "v" -> "V"
      [] OTHER -> c

toLowerCase(s) == [i \in 1..Len(s) |-> LowerChar(s[i])]

toUpperCase(s) == [i \in 1..Len(s) |-> UpperChar(s[i])]

includes(s, t) ==
    \E i \in 0..(Len(s) - Len(t)) : SubSeq(s, i + 1, i + Len(t)) = t

RECURSIVE join(_, _)
join(parts, sep) ==
    IF parts = <<>> THEN <<>>
    ELSE IF Len(parts) = 1 THEN parts[1]
    ELSE parts[1] \o sep \o join(Tail(parts), sep)

filterBoolean(parts) == SelectSeq(parts, LAMBDA p : p # <<>>)

slice(s, n) == SubSeq(s, 1, IF Len(s) < n THEN Len(s) ELSE n)

----------------------------------------------------------------------------
(* Map and plain-object tables: entries in insertion order.                *)

MapKeys(m) == {m[i].key : i \in 1..Len(m)}

MapHas(m, k) == \E i \in 1..Len(m) : m[i].key = k

MapIndex(m, k) == CHOOSE i \in 1..Len(m) : m[i].key = k

MapGet(m, k) == m[MapIndex(m, k)].val

MapSet(m, k, v) ==
    IF MapHas(m, k)
    THEN [m EXCEPT ![MapIndex(m, k)] = [key |-> k, val |-> v]]
    ELSE Append(m, [key |-> k, val |-> v])

\* The property names a plain object used as a table inherits from
\* Object.prototype; valueOf stands for them (constructor, toString, ...).
ValueOf == <<"v", "a", "l", "u", "e", "O", "f">>

ObjectPrototype == {ValueOf}

\* What table[k] gives for an inherited k that is no key of the table: a
\* function object, which is neither a table, a record nor a list of tags.
Inherited == <<"[Function]">>

\* if (table[k]): the tables hold objects and arrays only, so table[k] is
\* truthy when k is a key of the table or an inherited property name.
Truthy(m, k) == MapHas(m, k) \/ k \in ObjectPrototype

\* table[k], for a truthy table[k].
Prop(m, k) == IF MapHas(m, k) THEN MapGet(m, k) ELSE Inherited

----------------------------------------------------------------------------
(* src/parsers/ts-data.mjs                                                 *)

\* The integer literal of a version-table entry, as its radix and digits.
RECURSIVE Digits(_, _)
Digits(v, radix) ==
    IF v < radix THEN <<v>> ELSE Append(Digits(v \div radix, radix), v % radix)

RECURSIVE parseDigits(_, _)
parseDigits(digits, radix) ==
    IF digits = <<>> THEN 0
    ELSE parseDigits(SubSeq(digits, 1, Len(digits) - 1), radix) * radix
         + digits[Len(digits)]

\* parseInt(text): "0x" selects radix 16, anything else radix 10.
parseInt(lit) == parseDigits(lit.digits, lit.radix)

\* a & b on non-negative operands below 2^31, where the ToInt32 that & applies
\* to its operands changes nothing.
RECURSIVE BitAnd(_, _)
BitAnd(a, b) ==
    IF a = 0 \/ b = 0 THEN 0
    ELSE (a % 2) * (b % 2) + 2 * BitAnd(a \div 2, b \div 2)

Mainline == "Mainline"

Vanilla == "Vanilla"

Mists == "Mists"

decodeFlavorBitmaskWrongBit(bitmask) ==
    (IF BitAnd(bitmask, 1) # 0 THEN <<Mainline>> ELSE <<>>)
    \o (IF BitAnd(bitmask, 2) # 0 THEN <<Vanilla>> ELSE <<>>)
    \o (IF BitAnd(bitmask, 8) # 0 THEN <<Mists>> ELSE <<>>)

decodeFlavorBitmask(bitmask) ==
    (IF BitAnd(bitmask, 1) # 0 THEN <<Mainline>> ELSE <<>>)
    \o (IF BitAnd(bitmask, 2) # 0 THEN <<Vanilla>> ELSE <<>>)
    \o (IF BitAnd(bitmask, 4) # 0 THEN <<Mists>> ELSE <<>>)

\* One match of the entry pattern: flavorMap[name] = decode(parseInt(text)).
FlavorStep(flavorMap, entry) ==
    MapSet(flavorMap, entry.name, decodeFlavorBitmask(parseInt(entry.lit)))

RECURSIVE parseFlavorFile(_)
parseFlavorFile(entries) ==
    IF entries = <<>> THEN <<>>
    ELSE FlavorStep(parseFlavorFile(SubSeq(entries, 1, Len(entries) - 1)),
                    entries[Len(entries)])

EsModule == <<"__esModule">>

UseStrict == <<"use strict">>

\* Every quoted string of the file but the two sentinels, in order.
parseDeprecatedFile(quoted) ==
    SelectSeq(quoted, LAMBDA name : name # EsModule /\ name # UseStrict)

----------------------------------------------------------------------------
(* src/parsers/lua-annotations.mjs                                         *)

\* str.lastIndexOf(ch), 0-based, -1 when absent.
lastIndexOf(s, ch) ==
    IF \E i \in 1..Len(s) : s[i] = ch
    THEN (CHOOSE i \in 1..Len(s) :
              s[i] = ch /\ \A j \in (i + 1)..Len(s) : s[j] # ch) - 1
    ELSE -1

NotAFunction == [fullName |-> Null, namespace |-> Null, name |-> Null,
                 isMethod |-> FALSE]

\* The signature between "function " and "(": [\w.]+ or [\w.]+:\w+.
parseFunctionLine(sig) ==
    LET dotIdx == lastIndexOf(sig, ".")
        colIdx == lastIndexOf(sig, ":")
        colons == Cardinality({i \in 1..Len(sig) : sig[i] = ":"})
    IN  IF sig # <<>> /\ colons = 0
        THEN IF dotIdx # -1
             THEN [fullName |-> sig,
                   namespace |-> SubSeq(sig, 1, dotIdx),
                   name |-> SubSeq(sig, dotIdx + 2, Len(sig)),
                   isMethod |-> FALSE]
             ELSE [fullName |-> sig, namespace |-> Null, name |-> sig,
                   isMethod |-> FALSE]
        ELSE IF colons = 1 /\ colIdx > 0 /\ colIdx + 1 < Len(sig)
                /\ \A i \in (colIdx + 2)..Len(sig) : sig[i] # "."
        THEN [fullName |-> sig,
              namespace |-> SubSeq(sig, 1, colIdx),
              name |-> SubSeq(sig, colIdx + 2, Len(sig)),
              isMethod |-> TRUE]
        ELSE NotAFunction

\* functions.push({ ...funcInfo, ...annotation }): the parsed function object.
\* deprecatedInPatch, source and gameVersions are not set by the parser; they
\* are None, Null and <<>> here until load() and _indexFunction set them.
ParsedFunction(sig, annotation) ==
    LET funcInfo == parseFunctionLine(sig)
    IN  [fullName |-> funcInfo.fullName,
         namespace |-> funcInfo.namespace,
         name |-> funcInfo.name,
         isMethod |-> funcInfo.isMethod,
         deprecated |-> annotation.deprecated,
         description |-> annotation.description,
         deprecatedInPatch |-> None,
         source |-> Null,
         gameVersions |-> <<>>]

\* The class object of an @class line: its name and its parent list.
ParsedClass(name, inherits) == [name |-> name, inherits |-> inherits]

\* A file path of the deprecated directory: whether it holds "Deprecated_"
\* and the run of underscore-separated integers that follows it.  The
\* version "a.b.c" is the tuple of its three integers.
extractPatchFromFilename(file) ==
    IF file.stem = "Deprecated_" /\ Len(file.nums) >= 3
    THEN Some(SubSeq(file.nums, 1, 3))
    ELSE None

\* A line of Enum.lua: k is the shape of its text ("enum": ---@enum <name>,
\* "open": <name> = {, "close": }, "kv": <name> = <neg?><digits>, possibly
\* with a trailing comma, "other"), name its identifier.
\* /^(\w+)\s*=\s*(\d+),?$/: \d+ takes no sign.
kvMatch(line) == line.k = "kv" /\ ~line.neg

EnumStart == [enums |-> <<>>, currentEnum |-> Null, currentValues |-> <<>>]

\* A loop body whose @enum line keeps the members collected so far.
EnumStepKeepValues(p, line) ==
    IF line.k = "enum"
    THEN [p EXCEPT !.currentEnum = line.name]
    ELSE IF p.currentEnum # Null /\ line.k = "open"
    THEN p
    ELSE IF p.currentEnum # Null /\ line.k = "close"
    THEN [enums |-> MapSet(p.enums, p.currentEnum, p.currentValues),
          currentEnum |-> Null,
          currentValues |-> <<>>]
    ELSE IF p.currentEnum # Null /\ kvMatch(line)
    THEN [p EXCEPT !.currentValues =
              MapSet(@, line.name, parseDigits(line.digits, 10))]
    ELSE p

\* One iteration of the line loop of parseEnumFile.
EnumStep(p, line) ==
    IF line.k = "enum"
    THEN [p EXCEPT !.currentEnum = line.name, !.currentValues = <<>>]
    ELSE IF p.currentEnum # Null /\ line.k = "open"
    THEN p
    ELSE IF p.currentEnum # Null /\ line.k = "close"
    THEN [enums |-> MapSet(p.enums, p.currentEnum, p.currentValues),
          currentEnum |-> Null,
          currentValues |-> <<>>]
    ELSE IF p.currentEnum # Null /\ kvMatch(line)
    THEN [p EXCEPT !.currentValues =
              MapSet(@, line.name, parseDigits(line.digits, 10))]
    ELSE p

RECURSIVE EnumScan(_)
EnumScan(lines) ==
    IF lines = <<>> THEN EnumStart
    ELSE EnumStep(EnumScan(SubSeq(lines, 1, Len(lines) - 1)), lines[Len(lines)])

parseEnumFile(lines) == EnumScan(lines).enums

\* A line of Event.lua or CVar.lua: k = "alias" for ---|"<name>", followed,
\* when seg, by # `<text>`; "other" for any other line.
\* match[2] || null: an unmatched group and an empty text both give null.
payloadOf(line) == IF line.seg /\ line.text # <<>> THEN Some(line.text) ELSE None

EventStep(events, line) ==
    IF line.k = "alias"
    THEN MapSet(events, line.name, [name |-> line.name, payload |-> payloadOf(line)])
    ELSE events

RECURSIVE parseEventFile(_)
parseEventFile(lines) ==
    IF lines = <<>> THEN <<>>
    ELSE EventStep(parseEventFile(SubSeq(lines, 1, Len(lines) - 1)),
                   lines[Len(lines)])

parseCVarFile(lines) ==
    LET hits == SelectSeq(lines, LAMBDA l : l.k = "alias")
    IN  [i \in 1..Len(hits) |-> hits[i].name]

----------------------------------------------------------------------------
(* src/data-store.mjs: the DataStore and load()                            *)

\* new DataStore()
constructor ==
    [objs |-> <<>>,
     functions |-> <<>>,
     namespaces |-> <<>>,
     widgets |-> <<>>,
     enums |-> <<>>,
     events |-> <<>>,
     cvars |-> <<>>,
     deprecatedList |-> {},
     flavorMap |-> <<>>]

\* The function object a key of the function index maps to.
FunctionAt(st, key) == st.objs[MapGet(st.functions, key)]

\* namespaces.get(ns).push(func), creating the list first when absent.
PushNamespace(namespaces, ns, oid) ==
    IF MapHas(namespaces, ns)
    THEN [namespaces EXCEPT ![MapIndex(namespaces, ns)].val = Append(@, oid)]
    ELSE Append(namespaces, [key |-> ns, val |-> <<oid>>])

_indexFunction(st, func, source) ==
    LET oid == Len(st.objs) + 1
    IN  [st EXCEPT
            !.objs = Append(@, [func EXCEPT !.source = source]),
            !.functions = MapSet(@, func.fullName, oid),
            !.namespaces = IF func.namespace # Null /\ ~func.isMethod
                           THEN PushNamespace(@, func.namespace, oid)
                           ELSE @]

\* A variant that stores a fresh entry for every class declaration.
_indexClassReset(st, cls) ==
    [st EXCEPT !.widgets =
        MapSet(@, cls.name, [classInfo |-> Some(cls), methods |-> <<>>])]

_indexClass(st, cls) ==
    IF ~MapHas(st.widgets, cls.name)
    THEN [st EXCEPT !.widgets =
             MapSet(@, cls.name, [classInfo |-> Some(cls), methods |-> <<>>])]
    ELSE [st EXCEPT !.widgets[MapIndex(st.widgets, cls.name)].val.classInfo =
             Some(cls)]

\* The widget pass: the function object last indexed is also pushed on the
\* method list of its owner, created without class-info when absent.
RegisterMethod(st, func) ==
    LET oid == Len(st.objs)
        w == IF MapHas(st.widgets, func.namespace) THEN st.widgets
             ELSE MapSet(st.widgets, func.namespace,
                         [classInfo |-> None, methods |-> <<>>])
    IN  IF func.isMethod /\ func.namespace # Null
        THEN [st EXCEPT !.widgets =
                 [w EXCEPT ![MapIndex(w, func.namespace)].val.methods =
                      Append(@, oid)]]
        ELSE st

\* The last loop of load(): flavorMap[shortName], else flavorMap[name].
Enrich(st) ==
    LET tagsFor(name, func) ==
            LET shortName == IF func.name # Null THEN func.name ELSE name
            IN  IF Truthy(st.flavorMap, shortName)
                THEN Prop(st.flavorMap, shortName)
                ELSE IF Truthy(st.flavorMap, name)
                THEN Prop(st.flavorMap, name)
                ELSE func.gameVersions
    IN  [st EXCEPT !.objs =
            [oid \in 1..Len(st.objs) |->
                IF \E i \in 1..Len(st.functions) : st.functions[i].val = oid
                THEN [st.objs[oid] EXCEPT !.gameVersions =
                         tagsFor(st.objs[oid].fullName, st.objs[oid])]
                ELSE st.objs[oid]]]

----------------------------------------------------------------------------
(* What the files of the extension may hold.                               *)

FuncSigs ==
    {S1("f"), S3("N", ".", "f"), S3("n", ".", "f"), S3("N", ":", "g")}

Plain == [deprecated |-> FALSE, description |-> Null]

ClassNames == {S1("N")}

ParentLists == {<<>>, <<S1("P")>>}

NoFile == [stem |-> "", nums |-> <<>>]

\* Deprecated_11_0_5.lua and Deprecated_SpellBook.lua
DeprecatedFiles ==
    {[stem |-> "Deprecated_", nums |-> <<11, 0, 5>>],
     [stem |-> "Deprecated_", nums |-> <<>>]}

FuncItem(pass, sig, annotation, file) ==
    [pass |-> pass, kind |-> "function", sig |-> sig,
     annotation |-> annotation, inherits |-> <<>>, file |-> file]

ClassItem(pass, name, inherits) ==
    [pass |-> pass, kind |-> "class", sig |-> name,
     annotation |-> Plain, inherits |-> inherits, file |-> NoFile]

\* The signatures and annotation blocks a scenario draws its functions from.
LoadInputs ==
    [sigs |-> {S1("f"), S3("N", ".", "f"), S3("N", ":", "g")},
     annotations |-> {Plain, [deprecated |-> TRUE, description |-> Null]}]

QueryInputs == [sigs |-> FuncSigs, annotations |-> {Plain}]

FuncItems(pass, sigs, annotations, files) ==
    {FuncItem(pass, sig, a, f) : sig \in sigs, a \in annotations, f \in files}

ClassItems(pass) ==
    {ClassItem(pass, n, ps) : n \in ClassNames, ps \in ParentLists}

\* The declarations a pass may meet.  The deprecated and the wiki pass take
\* only the functions of parseLuaFile's result; the deprecated pass sets the
\* deprecated flag whatever the block says, so its blocks are left plain.
Items(pass, u) ==
    LET funcs == FuncItems(pass, u.sigs, u.annotations, {NoFile})
    IN  CASE pass = "blizzard" -> funcs \cup ClassItems(pass)
          [] pass = "deprecated" ->
                 FuncItems(pass, u.sigs, {Plain}, DeprecatedFiles)
          [] pass = "wiki" -> funcs
          [] pass = "widget" -> funcs \cup ClassItems(pass)
          [] pass = "framexml" -> funcs \cup ClassItems(pass)
          [] OTHER -> {}

Hex(v) == [radix |-> 16, digits |-> Digits(v, 16)]

FlavorFiles ==
    {None, Some(<<[name |-> S1("f"), lit |-> Hex(5)]>>),
     Some(<<[name |-> S3("N", ".", "f"), lit |-> Hex(2)]>>),
     Some(<<[name |-> S1("f"), lit |-> Hex(5)],
            [name |-> S3("N", ".", "f"), lit |-> Hex(2)]>>)}

DeprecatedLists == {None, Some(<<UseStrict, EsModule, S1("f")>>)}

EnumLine(k, name, neg, digits) ==
    [k |-> k, name |-> name, neg |-> neg, digits |-> digits]

AliasLine(name, seg, text) == [k |-> "alias", name |-> name, seg |-> seg, text |-> text]

OtherLine == [k |-> "other", name |-> Null, seg |-> FALSE, text |-> <<>>]

SampleEnumFile ==
    <<EnumLine("enum", S1("E"), FALSE, <<>>),
      EnumLine("open", S1("E"), FALSE, <<>>),
      EnumLine("kv", S1("A"), FALSE, <<1>>),
      EnumLine("close", Null, FALSE, <<>>)>>

SampleEventFile == <<OtherLine, AliasLine(S1("A"), TRUE, S1("x"))>>

SampleCVarFile == <<OtherLine, AliasLine(S1("a"), FALSE, <<>>)>>

NoCorpus ==
    [root |-> FALSE, flavor |-> None, deprecated |-> None, lua |-> <<>>,
     enum |-> None, event |-> None, cvar |-> None]

Present(file) == IF file = None THEN 0 ELSE 1

\* The size of a corpus: its side-table entries, declarations and data files.
Cost(c) ==
    (IF c.flavor = None THEN 0 ELSE Len(c.flavor[1]))
    + (IF c.deprecated = None THEN 0 ELSE Len(parseDeprecatedFile(c.deprecated[1])))
    + Len(c.lua) + Present(c.enum) + Present(c.event) + Present(c.cvar)

\* What the queries can observe of the index: every table with the function
\* objects in place of their identities.
IndexView(st) ==
    [functions |-> [i \in 1..Len(st.functions) |->
                       [key |-> st.functions[i].key,
                        val |-> st.objs[st.functions[i].val]]],
     namespaces |-> [i \in 1..Len(st.namespaces) |->
                       [key |-> st.namespaces[i].key,
                        val |-> [j \in 1..Len(st.namespaces[i].val) |->
                                    st.objs[st.namespaces[i].val[j]]]]],
     widgets |-> [i \in 1..Len(st.widgets) |->
                       [key |-> st.widgets[i].key,
                        classInfo |-> st.widgets[i].val.classInfo,
                        methods |-> [j \in 1..Len(st.widgets[i].val.methods) |->
                                        st.objs[st.widgets[i].val.methods[j]]]]],
     enums |-> st.enums,
     events |-> st.events,
     cvars |-> st.cvars]

NoCall == [op |-> "none", arg |-> <<>>, result |-> <<>>]

NoParse == [fn |-> "none"]

Init ==
    /\ store = constructor
    /\ pc = "new"
    /\ corpus = NoCorpus
    /\ cursor = 0
    /\ round = 0
    /\ prior = IndexView(constructor)
    /\ call = NoCall
    /\ parse = NoParse

----------------------------------------------------------------------------
(* load(), one step per file read or declaration indexed.  A file of       *)
(* several declarations acts as that many files of one declaration each,   *)
(* taken in the order the loops of its pass take them.                     *)

FirstLoad == round = 1

LuaPasses == <<"blizzard", "deprecated", "wiki", "widget", "framexml">>

PassOrder(p) == CHOOSE i \in 1..Len(LuaPasses) : LuaPasses[i] = p

\* load() stands in a pass not after `pass`: the passes in between end
\* without a further file, and `pass` takes its next one.
Reaches(pass) ==
    /\ \E i \in 1..Len(LuaPasses) : LuaPasses[i] = pc
    /\ PassOrder(pc) <= PassOrder(pass)
    /\ pc' = pass

\* The running load() reads `item` as its next declaration: a first load
\* meets it (within the bound b), a later load finds what the first one met.
Reads(item, b) ==
    /\ cursor' = cursor + 1
    /\ IF FirstLoad
       THEN /\ Cost(corpus) < b
            /\ corpus' = [corpus EXCEPT !.lua = Append(@, item)]
       ELSE /\ cursor < Len(corpus.lua)
            /\ item = corpus.lua[cursor + 1]
            /\ UNCHANGED corpus

\* A variant that takes a missing flavor.js for a fatal condition.
LoadStartStrict(b, loads) ==
    /\ pc \in {"new", "loaded"}
    /\ round < loads
    /\ round' = round + 1
    /\ cursor' = 0
    /\ prior' = IndexView(store)
    /\ \E root \in BOOLEAN, flavor \in FlavorFiles, deprecated \in DeprecatedLists :
          /\ ~root => flavor = None /\ deprecated = None
          /\ corpus' = IF round = 0
                       THEN [corpus EXCEPT !.root = root, !.flavor = flavor,
                                           !.deprecated = deprecated]
                       ELSE corpus
          /\ root = corpus'.root
          /\ flavor = corpus'.flavor
          /\ deprecated = corpus'.deprecated
          /\ Cost(corpus') <= b \/ round > 0
          /\ IF ~root \/ flavor = None
             THEN pc' = "failed" /\ UNCHANGED store
             ELSE /\ pc' = "blizzard"
                  /\ store' =
                       [store EXCEPT
                           !.flavorMap = IF flavor # None
                                         THEN parseFlavorFile(flavor[1]) ELSE @,
                           !.deprecatedList =
                               IF deprecated # None
                               THEN @ \cup {parseDeprecatedFile(deprecated[1])[i] :
                                       i \in 1..Len(parseDeprecatedFile(deprecated[1]))}
                               ELSE @]
    /\ UNCHANGED <<call, parse>>

\* load() is called; the extension is found or not; the two side tables.
LoadStart(b, loads) ==
    /\ pc \in {"new", "loaded"}
    /\ round < loads
    /\ round' = round + 1
    /\ cursor' = 0
    /\ prior' = IndexView(store)
    /\ \E root \in BOOLEAN, flavor \in FlavorFiles, deprecated \in DeprecatedLists :
          /\ ~root => flavor = None /\ deprecated = None
          /\ corpus' = IF round = 0
                       THEN [corpus EXCEPT !.root = root, !.flavor = flavor,
                                           !.deprecated = deprecated]
                       ELSE corpus
          /\ root = corpus'.root
          /\ flavor = corpus'.flavor
          /\ deprecated = corpus'.deprecated
          /\ Cost(corpus') <= b \/ round > 0
          /\ IF ~root
             THEN pc' = "failed" /\ UNCHANGED store
             ELSE /\ pc' = "blizzard"
                  /\ store' =
                       [store EXCEPT
                           !.flavorMap = IF flavor # None
                                         THEN parseFlavorFile(flavor[1]) ELSE @,
                           !.deprecatedList =
                               IF deprecated # None
                               THEN @ \cup {parseDeprecatedFile(deprecated[1])[i] :
                                       i \in 1..Len(parseDeprecatedFile(deprecated[1]))}
                               ELSE @]
    /\ UNCHANGED <<call, parse>>

FuncOf(item) == ParsedFunction(item.sig, item.annotation)

ClassOf(item) == ParsedClass(item.sig, item.inherits)

BlizzardStep(st, item) ==
    IF item.kind = "function"
    THEN _indexFunction(st, FuncOf(item), "blizzard")
    ELSE _indexClass(st, ClassOf(item))

DeprecatedStep(st, item) ==
    LET patchVersion == extractPatchFromFilename(item.file)
        func == [FuncOf(item) EXCEPT !.deprecatedInPatch = patchVersion,
                                     !.deprecated = TRUE]
    IN  _indexFunction(st, func, "deprecated")

WikiStepOverwrite(st, item) ==
    LET parsed == FuncOf(item)
        listed == (IF parsed.name # Null THEN parsed.name ELSE parsed.fullName)
                      \in st.deprecatedList
        func == IF listed THEN [parsed EXCEPT !.deprecated = TRUE] ELSE parsed
    IN  _indexFunction(st, func, "wiki")

WikiStep(st, item) ==
    LET parsed == FuncOf(item)
        listed == (IF parsed.name # Null THEN parsed.name ELSE parsed.fullName)
                      \in st.deprecatedList
        func == IF listed THEN [parsed EXCEPT !.deprecated = TRUE] ELSE parsed
    IN  IF ~MapHas(st.functions, func.fullName)
        THEN _indexFunction(st, func, "wiki")
        ELSE st

WidgetStep(st, item) ==
    IF item.kind = "class"
    THEN _indexClass(st, ClassOf(item))
    ELSE RegisterMethod(_indexFunction(st, FuncOf(item), "widget"), FuncOf(item))

FrameXmlStep(st, item) ==
    IF item.kind = "class"
    THEN _indexClass(st, ClassOf(item))
    ELSE IF ~MapHas(st.functions, FuncOf(item).fullName)
    THEN _indexFunction(st, FuncOf(item), "framexml")
    ELSE st

BlizzardPass(b, u) ==
    /\ Reaches("blizzard")
    /\ \E item \in Items("blizzard", u) :
          Reads(item, b) /\ store' = BlizzardStep(store, item)
    /\ UNCHANGED <<round, prior, call, parse>>

DeprecatedPass(b, u) ==
    /\ Reaches("deprecated")
    /\ \E item \in Items("deprecated", u) :
          Reads(item, b) /\ store' = DeprecatedStep(store, item)
    /\ UNCHANGED <<round, prior, call, parse>>

WikiPass(b, u) ==
    /\ Reaches("wiki")
    /\ \E item \in Items("wiki", u) :
          Reads(item, b) /\ store' = WikiStep(store, item)
    /\ UNCHANGED <<round, prior, call, parse>>

WidgetPass(b, u) ==
    /\ Reaches("widget")
    /\ \E item \in Items("widget", u) :
          Reads(item, b) /\ store' = WidgetStep(store, item)
    /\ UNCHANGED <<round, prior, call, parse>>

FrameXmlPass(b, u) ==
    /\ Reaches("framexml")
    /\ \E item \in Items("framexml", u) :
          Reads(item, b) /\ store' = FrameXmlStep(store, item)
    /\ UNCHANGED <<round, prior, call, parse>>

\* The passes have no further file.  Enum.lua, Event.lua and CVar.lua, each
\* when it exists, and the version tags of every indexed function; load()
\* returns.
LoadData(b) ==
    /\ \E i \in 1..Len(LuaPasses) : LuaPasses[i] = pc
    /\ cursor = Len(corpus.lua)
    /\ \E enum \in {None, Some(SampleEnumFile)},
          event \in {None, Some(SampleEventFile)},
          cvar \in {None, Some(SampleCVarFile)} :
          /\ corpus' = IF FirstLoad
                       THEN [corpus EXCEPT !.enum = enum, !.event = event,
                                           !.cvar = cvar]
                       ELSE corpus
          /\ enum = corpus'.enum
          /\ event = corpus'.event
          /\ cvar = corpus'.cvar
          /\ Cost(corpus') <= b \/ Cost(corpus') = Cost(corpus)
          /\ store' = Enrich([store EXCEPT
                 !.enums = IF enum # None THEN parseEnumFile(enum[1]) ELSE @,
                 !.events = IF event # None THEN parseEventFile(event[1]) ELSE @,
                 !.cvars = IF cvar # None THEN parseCVarFile(cvar[1]) ELSE @])
    /\ pc' = "loaded"
    /\ UNCHANGED <<cursor, round, prior, call, parse>>

Load(b, loads, u) ==
    \/ LoadStart(b, loads)
    \/ BlizzardPass(b, u)
    \/ DeprecatedPass(b, u)
    \/ WikiPass(b, u)
    \/ WidgetPass(b, u)
    \/ FrameXmlPass(b, u)
    \/ LoadData(b)

----------------------------------------------------------------------------
(* src/data-store.mjs: the query methods.  A list of function objects is   *)
(* the list of their identities.                                           *)

LookupLimit == 25

SearchLimit == 50

Oids(entries) == [i \in 1..Len(entries) |-> entries[i].val]

\* The first entry of the function index whose key equals `lowerName`
\* once lower-cased, 0 when there is none.
FoldedIndex(st, lowerName) ==
    LET hits == {i \in 1..Len(st.functions) :
                     toLowerCase(st.functions[i].key) = lowerName}
    IN  IF hits = {} THEN 0
        ELSE CHOOSE i \in hits : \A j \in hits : i <= j

PartialMatches(st, lowerName) ==
    Oids(SelectSeq(st.functions,
        LAMBDA e :
            LET func == st.objs[e.val]
                shortName == IF func.name # Null THEN func.name ELSE e.key
            IN  \/ toLowerCase(shortName) = lowerName
                \/ includes(toLowerCase(e.key), lowerName)))

lookupApiFoldFirst(st, name) ==
    LET lowerName == toLowerCase(name)
    IN  IF FoldedIndex(st, lowerName) # 0
        THEN <<st.functions[FoldedIndex(st, lowerName)].val>>
        ELSE slice(PartialMatches(st, lowerName), LookupLimit)

lookupApiNoFold(st, name) ==
    LET lowerName == toLowerCase(name)
    IN  IF MapHas(st.functions, name)
        THEN <<MapGet(st.functions, name)>>
        ELSE slice(PartialMatches(st, lowerName), LookupLimit)

lookupApi(st, name) ==
    LET lowerName == toLowerCase(name)
    IN  IF MapHas(st.functions, name)
        THEN <<MapGet(st.functions, name)>>
        ELSE IF FoldedIndex(st, lowerName) # 0
        THEN <<st.functions[FoldedIndex(st, lowerName)].val>>
        ELSE slice(PartialMatches(st, lowerName), LookupLimit)

\* [fullName, name, description].filter(Boolean).join(' ').toLowerCase()
searchable(func) ==
    toLowerCase(join(filterBoolean(<<func.fullName, func.name, func.description>>),
                     <<" ">>))

SearchMatches(st, query) ==
    Oids(SelectSeq(st.functions,
        LAMBDA e : includes(searchable(st.objs[e.val]), toLowerCase(query))))

searchApiUncapped(st, query) == SearchMatches(st, query)

searchApi(st, query) == slice(SearchMatches(st, query), SearchLimit)

NullResult == [kind |-> "null", key |-> Null, val |-> <<>>]

getEnum(st, name) ==
    LET lowerName == toLowerCase(name)
        hits == {i \in 1..Len(st.enums) :
                     \/ toLowerCase(st.enums[i].key) = lowerName
                     \/ includes(toLowerCase(st.enums[i].key), lowerName)}
        first == CHOOSE i \in hits : \A j \in hits : i <= j
    IN  IF MapHas(st.enums, name)
        THEN [kind |-> "table", key |-> name, val |-> MapGet(st.enums, name)]
        ELSE IF Truthy(st.enums, name)
        THEN [kind |-> "inherited", key |-> name, val |-> Inherited]
        ELSE IF hits # {}
        THEN [kind |-> "wrapper", key |-> st.enums[first].key,
              val |-> st.enums[first].val]
        ELSE NullResult

EventMatches(st, upperName) ==
    Oids(SelectSeq(st.events, LAMBDA e : includes(e.key, upperName)))

getEventEmptyList(st, name) ==
    LET upperName == toUpperCase(name)
    IN  IF MapHas(st.events, upperName)
        THEN [kind |-> "record", key |-> upperName,
              val |-> <<MapGet(st.events, upperName)>>]
        ELSE [kind |-> "list", key |-> Null, val |-> EventMatches(st, upperName)]

getEvent(st, name) ==
    LET upperName == toUpperCase(name)
        results == EventMatches(st, upperName)
    IN  IF MapHas(st.events, upperName)
        THEN [kind |-> "record", key |-> upperName,
              val |-> <<MapGet(st.events, upperName)>>]
        ELSE IF Truthy(st.events, upperName)
        THEN [kind |-> "inherited", key |-> upperName, val |-> Inherited]
        ELSE IF Len(results) > 0
        THEN [kind |-> "list", key |-> Null, val |-> results]
        ELSE NullResult

\* The arguments the queries are called with.
Queries == FuncSigs \cup {S1("F"), S3("N", ".", "F")}

LookupApi(qs) ==
    /\ pc = "loaded"
    /\ \E name \in qs :
          call' = [op |-> "lookupApi", arg |-> name,
                   result |-> lookupApi(store, name)]
    /\ UNCHANGED <<store, pc, corpus, cursor, round, prior, parse>>

SearchApi(qs) ==
    /\ pc = "loaded"
    /\ \E query \in qs :
          call' = [op |-> "searchApi", arg |-> query,
                   result |-> searchApi(store, query)]
    /\ UNCHANGED <<store, pc, corpus, cursor, round, prior, parse>>

GetEnum(qs) ==
    /\ pc = "loaded"
    /\ \E name \in qs :
          call' = [op |-> "getEnum", arg |-> name, result |-> getEnum(store, name)]
    /\ UNCHANGED <<store, pc, corpus, cursor, round, prior, parse>>

GetEvent(qs) ==
    /\ pc = "loaded"
    /\ \E name \in qs :
          call' = [op |-> "getEvent", arg |-> name, result |-> getEvent(store, name)]
    /\ UNCHANGED <<store, pc, corpus, cursor, round, prior, parse>>

----------------------------------------------------------------------------
(* The specifications.                                                     *)

\* One load() of a fresh DataStore, as the server runs it at startup.
Next == Load(MaxCorpus, 1, LoadInputs)

Spec == Init /\ [][Next]_vars

\* One load() and then lookups and searches.
NextQuery ==
    \/ Load(MaxQueryCorpus, 1, QueryInputs)
    \/ LookupApi(Queries)
    \/ SearchApi(Queries)

SpecQuery == Init /\ [][NextQuery]_vars

\* load() called again on the same DataStore, the corpus unchanged.
NextReload == Load(MaxReloadCorpus, MaxLoads, LoadInputs)

SpecReload == Init /\ [][NextReload]_vars

\* A primary documentation file of many functions, f00, f01, ... in file
\* order, every other one with a description; no side table, no data file.
DigitChars == <<"0", "1", "2", "3", "4", "5", "6", "7">>

BulkSig(i) ==
    <<"f", DigitChars[((i \div 8) % 8) + 1], DigitChars[(i % 8) + 1]>>

BulkItem(i) ==
    FuncItem("blizzard", BulkSig(i),
             IF i % 2 = 1 THEN [deprecated |-> FALSE, description |-> S1("d")]
             ELSE Plain,
             NoFile)

BulkPass ==
    /\ Reaches("blizzard")
    /\ cursor < MaxBulk
    /\ Reads(BulkItem(cursor), MaxBulk)
    /\ store' = BlizzardStep(store, BulkItem(cursor))
    /\ UNCHANGED <<round, prior, call, parse>>

BulkQueries == {<<>>, S1("f"), S1("F"), S1("d"), S3("f", "0", "1"), S1("0")}

NextBulk ==
    \/ LoadStart(0, 1)
    \/ BulkPass
    \/ LoadData(0)
    \/ LookupApi(BulkQueries)
    \/ SearchApi(BulkQueries)

SpecBulk == Init /\ [][NextBulk]_vars

\* load() at Enum.lua: the line loop of parseEnumFile, the assignment of its
\* result to the enum table, and getEnum.
EnumNames == {S1("E"), <<"E", "A">>}

EnumLines ==
    {EnumLine("enum", n, FALSE, <<>>) : n \in EnumNames}
    \cup {EnumLine("open", S1("E"), FALSE, <<>>),
          EnumLine("close", Null, FALSE, <<>>),
          EnumLine("other", Null, FALSE, <<>>),
          EnumLine("kv", S1("A"), FALSE, <<1, 0>>)}
    \cup {EnumLine("kv", key, neg, <<1>>) : key \in {S1("A"), S1("B")},
                                             neg \in BOOLEAN}

EnumQueries == {S1("E"), S1("e"), S1("A"), <<>>}

InitEnum ==
    /\ store = constructor
    /\ pc = "parseEnumFile"
    /\ corpus = [NoCorpus EXCEPT !.root = TRUE]
    /\ cursor = 0
    /\ round = 1
    /\ prior = IndexView(constructor)
    /\ call = NoCall
    /\ parse = [fn |-> "parseEnumFile", lines |-> <<>>, p |-> EnumStart]

EnumLineStep ==
    /\ pc = "parseEnumFile"
    /\ Len(parse.lines) < MaxEnumLines
    /\ \E line \in EnumLines :
          parse' = [parse EXCEPT !.lines = Append(@, line),
                                 !.p = EnumStep(@, line)]
    /\ UNCHANGED <<store, pc, corpus, cursor, round, prior, call>>

EnumReturn ==
    /\ pc = "parseEnumFile"
    /\ store' = Enrich([store EXCEPT !.enums = parse.p.enums])
    /\ corpus' = [corpus EXCEPT !.enum = Some(parse.lines)]
    /\ pc' = "loaded"
    /\ parse' = NoParse
    /\ UNCHANGED <<cursor, round, prior, call>>

NextEnum == EnumLineStep \/ EnumReturn \/ GetEnum(EnumQueries)

SpecEnum == InitEnum /\ [][NextEnum]_vars

\* load() at Event.lua: the line loop of parseEventFile, the assignment of
\* its result to the event table, and getEvent.
EventNames == {S1("A"), <<"A", "B">>, S1("a")}

EventLines ==
    {OtherLine}
    \cup {AliasLine(n, FALSE, <<>>) : n \in EventNames}
    \cup {AliasLine(n, TRUE, t) : n \in EventNames, t \in {<<>>, S1("x")}}

EventQueries == {<<>>, S1("a"), S1("A"), <<"a", "b">>, S1("B"), S1("g")}

InitEvent ==
    /\ store = constructor
    /\ pc = "parseEventFile"
    /\ corpus = [NoCorpus EXCEPT !.root = TRUE]
    /\ cursor = 0
    /\ round = 1
    /\ prior = IndexView(constructor)
    /\ call = NoCall
    /\ parse = [fn |-> "parseEventFile", lines |-> <<>>, events |-> <<>>]

EventLineStep ==
    /\ pc = "parseEventFile"
    /\ Len(parse.lines) < MaxEventLines
    /\ \E line \in EventLines :
          parse' = [parse EXCEPT !.lines = Append(@, line),
                                 !.events = EventStep(@, line)]
    /\ UNCHANGED <<store, pc, corpus, cursor, round, prior, call>>

EventReturn ==
    /\ pc = "parseEventFile"
    /\ store' = Enrich([store EXCEPT !.events = parse.events])
    /\ corpus' = [corpus EXCEPT !.event = Some(parse.lines)]
    /\ pc' = "loaded"
    /\ parse' = NoParse
    /\ UNCHANGED <<cursor, round, prior, call>>

NextEvent == EventLineStep \/ EventReturn \/ GetEvent(EventQueries)

SpecEvent == InitEvent /\ [][NextEvent]_vars

\* load() at flavor.js: the match loop of parseFlavorFile and the assignment
\* of its result to the version table.
FlavorLiterals ==
    {[radix |-> r, digits |-> Digits(v, r)] : v \in 0..MaxBitmask, r \in {10, 16}}

FlavorNames == {S1("f"), S3("N", ".", "f")}

InitFlavor ==
    /\ store = constructor
    /\ pc = "parseFlavorFile"
    /\ corpus = [NoCorpus EXCEPT !.root = TRUE]
    /\ cursor = 0
    /\ round = 1
    /\ prior = IndexView(constructor)
    /\ call = NoCall
    /\ parse = [fn |-> "parseFlavorFile", entries |-> <<>>, flavorMap |-> <<>>]

FlavorMatchStep ==
    /\ pc = "parseFlavorFile"
    /\ Len(parse.entries) < MaxFlavorEntries
    /\ \E name \in FlavorNames, lit \in FlavorLiterals :
          LET entry == [name |-> name, lit |-> lit]
          IN  parse' = [parse EXCEPT !.entries = Append(@, entry),
                                     !.flavorMap = FlavorStep(@, entry)]
    /\ UNCHANGED <<store, pc, corpus, cursor, round, prior, call>>

FlavorReturn ==
    /\ pc = "parseFlavorFile"
    /\ store' = [store EXCEPT !.flavorMap = parse.flavorMap]
    /\ corpus' = [corpus EXCEPT !.flavor = Some(parse.entries)]
    /\ pc' = "blizzard"
    /\ parse' = NoParse
    /\ UNCHANGED <<cursor, round, prior, call>>

NextFlavor == FlavorMatchStep \/ FlavorReturn

SpecFlavor == InitFlavor /\ [][NextFlavor]_vars

----------------------------------------------------------------------------
(* Properties of the queries on the function index.                        *)

Keys == MapKeys(store.functions)

\* The members of a set of positions, in increasing order.
Ordered(S) ==
    [j \in 1..Cardinality(S) |->
        CHOOSE i \in S : Cardinality({h \in S : h < i}) = j - 1]

FirstOf(S, limit) ==
    SubSeq(Ordered(S), 1, IF Cardinality(S) < limit THEN Cardinality(S) ELSE limit)

\* The keys that equal the string q once both are lower-cased.
FoldedKeys(q) == {k \in Keys : toLowerCase(k) = toLowerCase(q)}

\* C1: after load, lookupApi called with a qualified name that is a key of
\* the function index returns exactly one record, whose qualified name is
\* that key, however many other keys contain it.
C1_ExactLookup ==
    /\ call.op = "lookupApi" /\ call.arg \in Keys
           => /\ Len(call.result) = 1
              /\ store.objs[call.result[1]].fullName = call.arg
    /\ pc = "loaded"
           => \A k \in Keys :
                  /\ Len(lookupApi(store, k)) = 1
                  /\ store.objs[lookupApi(store, k)[1]].fullName = k

C1_Witness ==
    /\ call.op = "lookupApi"
    /\ call.arg \in Keys
    /\ Len(call.result) = 1
    /\ \E k \in Keys : k # call.arg /\ includes(toLowerCase(k), toLowerCase(call.arg))
    /\ \E k \in Keys : k # call.arg /\ toLowerCase(k) = toLowerCase(call.arg)

\* C2: a query that is no key and equals exactly one key once both are
\* lower-cased gets the one record a lookup of that key gets.
C2_FoldedLookup ==
    call.op = "lookupApi" /\ call.arg \notin Keys
        /\ Cardinality(FoldedKeys(call.arg)) = 1
        => \A k \in FoldedKeys(call.arg) :
               /\ call.result = <<MapGet(store.functions, k)>>
               /\ call.result = lookupApi(store, k)

C2_Witness ==
    /\ call.op = "lookupApi"
    /\ call.arg \notin Keys
    /\ Cardinality(FoldedKeys(call.arg)) = 1
    /\ Len(call.result) = 1
    /\ \E k \in Keys \ FoldedKeys(call.arg) :
           includes(toLowerCase(k), toLowerCase(call.arg))

\* The positions of the function index a search, and the partial-match path
\* of a lookup, are to keep.
SearchHits(q) ==
    {i \in 1..Len(store.functions) :
        LET func == store.objs[store.functions[i].val]
        IN  includes(toLowerCase(join(filterBoolean(
                <<func.fullName, func.name, func.description>>), <<" ">>)),
                toLowerCase(q))}

PartialHits(q) ==
    {i \in 1..Len(store.functions) :
        LET func == store.objs[store.functions[i].val]
        IN  \/ toLowerCase(func.name) = toLowerCase(q)
            \/ includes(toLowerCase(store.functions[i].key), toLowerCase(q))}

RecordsAt(positions) ==
    [j \in 1..Len(positions) |-> store.functions[positions[j]].val]

\* C3: searchApi returns at most 50 records and the partial-match path of
\* lookupApi at most 25, each the first matches in insertion order.
C3_ResultCaps ==
    /\ call.op = "searchApi"
           => /\ Len(call.result) <= 50
              /\ call.result = RecordsAt(FirstOf(SearchHits(call.arg), 50))
    /\ call.op = "lookupApi" /\ call.arg \notin Keys
           /\ FoldedKeys(call.arg) = {}
           => /\ Len(call.result) <= 25
              /\ call.result = RecordsAt(FirstOf(PartialHits(call.arg), 25))

C3_Witness ==
    /\ call.op = "searchApi"
    /\ Cardinality(SearchHits(call.arg)) > 50
    /\ Len(call.result) = 50
    /\ call.arg \notin Keys
    /\ FoldedKeys(call.arg) = {}
    /\ Cardinality(PartialHits(call.arg)) > 25
    /\ Len(lookupApi(store, call.arg)) = 25

----------------------------------------------------------------------------
(* Properties of load.                                                     *)

\* The function declarations of a pass that the load has read.
Read(pass) ==
    {i \in 1..Len(corpus.lua) :
        corpus.lua[i].pass = pass /\ corpus.lua[i].kind = "function"}

\* C4: when load completes, a qualified name produced by the primary pass
\* and by the deprecated-file pass, from files whose names carry a version,
\* has its deprecated flag set and the patch version of such a file.
C4_DeprecationPrecedence ==
    pc = "loaded"
        => \A i \in Read("blizzard") :
               LET sig == corpus.lua[i].sig
                   files == {corpus.lua[j].file : j \in
                                {h \in Read("deprecated") : corpus.lua[h].sig = sig}}
               IN  files # {} /\ (\A f \in files : Len(f.nums) >= 3)
                       => /\ FunctionAt(store, sig).deprecated
                          /\ FunctionAt(store, sig).deprecatedInPatch # None
                          /\ \E f \in files :
                                 FunctionAt(store, sig).deprecatedInPatch
                                     = Some(f.nums)

\* The declaration a step of a pass has just read.
Taken == corpus.lua[cursor]

\* C5: a supplemental (wiki) record whose qualified name is already indexed
\* leaves the indexed record, and the index, as they were.
C5_WikiKeepsExisting ==
    [][(pc' = "wiki" /\ cursor' = cursor + 1
            /\ corpus'.lua[cursor'].sig \in Keys)
        => /\ store'.functions = store.functions
           /\ FunctionAt(store', corpus'.lua[cursor'].sig)
                  = FunctionAt(store, corpus'.lua[cursor'].sig)
           /\ store'.namespaces = store.namespaces]_vars

C5_Witness ==
    /\ pc = "wiki"
    /\ cursor > 0
    /\ Taken.pass = "wiki"
    /\ S1("f") \in store.deprecatedList
    /\ FuncOf(Taken).name = S1("f")
    /\ Taken.sig \in Keys
    /\ FunctionAt(store, Taken.sig).source = "blizzard"
    /\ ~FunctionAt(store, Taken.sig).deprecated

\* C6: once a qualified name is in the function index, only the deprecated
\* pass replaces its record.
C6_FirstWriterWins ==
    [][\A i \in 1..Len(store.functions) :
           (i <= Len(store'.functions)
               /\ store'.functions[i].val # store.functions[i].val)
           => pc' = "deprecated"]_vars

\* C7: a second load of the unchanged corpus leaves the index content as
\* the first load left it.
C7_LoadIdempotent ==
    pc = "loaded" /\ round > 1 => IndexView(store) = prior

----------------------------------------------------------------------------
(* Properties of the enum, event and version tables.                       *)

\* The integer a "<Key> = <integer>," line writes.
EnumValue(line) ==
    (IF line.neg THEN -1 ELSE 1) * parseDigits(line.digits, 10)

\* Lines i..j are one block: ---@enum <Name>, <Name> = {, key lines with
\* distinct keys, and }, with no later ---@enum of the same name.
IsEnumBlock(lines, i, j) ==
    /\ i + 2 <= j
    /\ lines[i].k = "enum"
    /\ lines[i + 1].k = "open"
    /\ lines[j].k = "close"
    /\ \A m \in (i + 2)..(j - 1) : lines[m].k = "kv"
    /\ \A m, n \in (i + 2)..(j - 1) : lines[m].name = lines[n].name => m = n
    /\ \A m \in (j + 1)..Len(lines) :
           ~(lines[m].k = "enum" /\ lines[m].name = lines[i].name)

\* C8: for every enum block of the file, getEnum(<Name>) after load returns
\* exactly the mapping of the block's keys to the block's integer values.
C8_EnumRoundTrip ==
    pc = "loaded" /\ corpus.enum # None
        => LET lines == corpus.enum[1]
           IN  \A i, j \in 1..Len(lines) :
                   IsEnumBlock(lines, i, j)
                       => LET r == getEnum(store, lines[i].name)
                          IN  /\ r.kind = "table"
                              /\ Len(r.val) = j - i - 2
                              /\ {<<r.val[m].key, r.val[m].val>> :
                                      m \in 1..Len(r.val)}
                                     = {<<lines[m].name, EnumValue(lines[m])>> :
                                            m \in (i + 2)..(j - 1)}

\* The last line of the file that declares the event called name.
LastAlias(lines, name) ==
    lines[CHOOSE i \in 1..Len(lines) :
              /\ lines[i].k = "alias" /\ lines[i].name = name
              /\ \A j \in (i + 1)..Len(lines) :
                     ~(lines[j].k = "alias" /\ lines[j].name = name)]

\* The positions of the event table whose name contains the string up.
EventHits(up) ==
    {i \in 1..Len(store.events) : includes(store.events[i].key, up)}

\* The result getEvent is to give, for a reading of the payload of a line.
EventShape(payload(_)) ==
    call.op = "getEvent"
        => LET up == toUpperCase(call.arg)
               r == call.result
               lines == corpus.event[1]
           IN  /\ ~(r.kind = "list" /\ r.val = <<>>)
               /\ IF up \in MapKeys(store.events)
                  THEN /\ r.kind = "record"
                       /\ Len(r.val) = 1
                       /\ r.val[1].name = up
                       /\ r.val[1].payload = payload(LastAlias(lines, up))
                  ELSE IF EventHits(up) # {}
                  THEN /\ r.kind = "list"
                       /\ r.val = [j \in 1..Cardinality(EventHits(up)) |->
                                      store.events[Ordered(EventHits(up))[j]].val]
                  ELSE r.kind = "null"

\* C9: getEvent returns the record named by the upper-cased query when
\* there is one, its payload the back-tick text of its line when the line has
\* a payload segment and absent otherwise; else the non-empty list of the
\* records whose name contains the upper-cased query; else absent.
C9_GetEventShapeAsStated ==
    EventShape(LAMBDA line : IF line.seg THEN Some(line.text) ELSE None)

\* C9, amended: the payload is the back-tick text when that text is not
\* empty, and absent when the line has no payload segment or an empty one.
C9_GetEventShape ==
    EventShape(LAMBDA line : IF line.seg /\ line.text # <<>>
                             THEN Some(line.text) ELSE None)

C9_Witness ==
    /\ call.op = "getEvent"
    /\ call.result.kind = "record"
    /\ call.result.val[1].payload = None
    /\ LastAlias(corpus.event[1], toUpperCase(call.arg)).seg
    /\ \E e \in MapKeys(store.events) :
           e # toUpperCase(call.arg) /\ includes(e, toUpperCase(call.arg))

\* The entries matched so far and the version table built from them.
FlavorEntries == IF pc = "parseFlavorFile" THEN parse.entries ELSE corpus.flavor[1]

FlavorTable == IF pc = "parseFlavorFile" THEN parse.flavorMap ELSE store.flavorMap

LastValue(name) ==
    LET last == CHOOSE i \in 1..Len(FlavorEntries) :
                    /\ FlavorEntries[i].name = name
                    /\ \A j \in (i + 1)..Len(FlavorEntries) :
                           FlavorEntries[j].name # name
    IN  parseDigits(FlavorEntries[last].lit.digits, FlavorEntries[last].lit.radix)

Tags(seq) == {seq[i] : i \in 1..Len(seq)}

\* C10: the tag set decoded from a value holds Mainline iff bit 0 is set,
\* Vanilla iff bit 1 is set, Mists iff bit 2 is set, and nothing else; the
\* bits above bit 2 change nothing.
C10_BitmaskDecode ==
    /\ \A name \in MapKeys(FlavorTable) :
           LET v == LastValue(name)
               tags == MapGet(FlavorTable, name)
           IN  /\ Mainline \in Tags(tags) <=> v % 2 = 1
               /\ Vanilla \in Tags(tags) <=> (v \div 2) % 2 = 1
               /\ Mists \in Tags(tags) <=> (v \div 4) % 2 = 1
               /\ Tags(tags) \subseteq {Mainline, Vanilla, Mists}
               /\ Len(tags) = Cardinality(Tags(tags))
               /\ tags = decodeFlavorBitmask(v % 8)
    /\ decodeFlavorBitmask(5) = <<Mainline, Mists>>
    /\ decodeFlavorBitmask(0) = <<>>

C10_Witness ==
    /\ pc = "blizzard"
    /\ Len(store.flavorMap) = 2
    /\ \E name \in MapKeys(store.flavorMap) :
           /\ LastValue(name) = 13
           /\ MapGet(store.flavorMap, name) = <<Mainline, Mists>>
    /\ \E name \in MapKeys(store.flavorMap) :
           /\ LastValue(name) = 16
           /\ MapGet(store.flavorMap, name) = <<>>

----------------------------------------------------------------------------
(* src/data-store.mjs: the remaining query methods.                        *)

\* The characters of the model in the order of their UTF-16 code units, the
\* order Array.prototype.sort() compares strings by.
CodeUnits ==
    <<".", "0", "1", "2", "3", "4", "5", "6", "7", ":",
      "A", "B", "E", "F", "G", "L", "N", "O", "P", "U", "V",
      "a", "b", "d", "e", "f", "g", "l", "n", "o", "u", "v", "x">>

CodeUnit(c) == CHOOSE i \in 1..Len(CodeUnits) : CodeUnits[i] = c

\* s sorts before t.
Less(s, t) ==
    \E i \in 1..Len(t) :
        /\ i - 1 <= Len(s)
        /\ SubSeq(s, 1, i - 1) = SubSeq(t, 1, i - 1)
        /\ IF i > Len(s) THEN TRUE ELSE CodeUnit(s[i]) < CodeUnit(t[i])

\* [...keys].sort(): the keys of a Map are distinct.
sort(keys) ==
    [j \in 1..Cardinality(keys) |->
        CHOOSE s \in keys : Cardinality({t \in keys : Less(t, s)}) = j - 1]

listDeprecatedByName(st, namespaceFilter) ==
    LET given == namespaceFilter # None /\ namespaceFilter[1] # <<>>
        keep(func) ==
            /\ func.deprecated
            /\ ~(given /\ ~includes(toLowerCase(func.fullName),
                                    toLowerCase(namespaceFilter[1])))
    IN  Oids(SelectSeq(st.functions, LAMBDA e : keep(st.objs[e.val])))

\* listDeprecated(namespaceFilter): the filter is None when the argument is
\* left out; an empty filter is falsy and filters nothing.
listDeprecated(st, namespaceFilter) ==
    LET given == namespaceFilter # None /\ namespaceFilter[1] # <<>>
        keep(func) ==
            /\ func.deprecated
            /\ ~(given /\ func.namespace # Null
                   /\ ~includes(toLowerCase(func.namespace),
                                toLowerCase(namespaceFilter[1])))
            /\ ~(given /\ func.namespace = Null
                   /\ ~includes(toLowerCase(func.fullName),
                                toLowerCase(namespaceFilter[1])))
    IN  Oids(SelectSeq(st.functions, LAMBDA e : keep(st.objs[e.val])))

getNamespace(st, name) ==
    LET lowerName == toLowerCase(name)
        hits == {i \in 1..Len(st.namespaces) :
                     toLowerCase(st.namespaces[i].key) = lowerName}
    IN  IF MapHas(st.namespaces, name) THEN MapGet(st.namespaces, name)
        ELSE IF hits # {}
        THEN st.namespaces[CHOOSE i \in hits : \A j \in hits : i <= j].val
        ELSE <<>>

listNamespaces(st) == sort(MapKeys(st.namespaces))

getWidgetMethods(st, widgetType) ==
    LET lowerType == toLowerCase(widgetType)
        hits == {i \in 1..Len(st.widgets) :
                     toLowerCase(st.widgets[i].key) = lowerType}
        first == CHOOSE i \in hits : \A j \in hits : i <= j
    IN  IF MapHas(st.widgets, widgetType)
        THEN [kind |-> "widget", key |-> widgetType,
              val |-> MapGet(st.widgets, widgetType)]
        ELSE IF hits # {}
        THEN [kind |-> "widget", key |-> st.widgets[first].key,
              val |-> st.widgets[first].val]
        ELSE NullResult

listWidgets(st) == sort(MapKeys(st.widgets))

searchEnums(st, query) ==
    SelectSeq(st.enums,
              LAMBDA e : includes(toLowerCase(e.key), toLowerCase(query)))

getStats(st) ==
    [totalFunctions |-> Len(st.functions),
     deprecatedFunctions |->
         Cardinality({i \in 1..Len(st.functions) :
                          st.objs[st.functions[i].val].deprecated}),
     namespaces |-> Len(st.namespaces),
     widgetTypes |-> Len(st.widgets),
     enums |-> Len(st.enums),
     events |-> Len(st.events),
     cvars |-> Len(st.cvars)]

\* What a query method returns on a store.
Answer(st, op, arg) ==
    CASE op = "lookupApi" -> lookupApi(st, arg)
      [] op = "searchApi" -> searchApi(st, arg)
      [] op = "listDeprecated" -> listDeprecated(st, arg)
      [] op = "getNamespace" -> getNamespace(st, arg)
      [] op = "listNamespaces" -> listNamespaces(st)
      [] op = "getWidgetMethods" -> getWidgetMethods(st, arg)
      [] op = "listWidgets" -> listWidgets(st)
      [] op = "getEnum" -> getEnum(st, arg)
      [] op = "searchEnums" -> searchEnums(st, arg)
      [] op = "getEvent" -> getEvent(st, arg)
      [] op = "getStats" -> getStats(st)

\* The query methods assign to no field of the DataStore.
ListDeprecated(filters) ==
    /\ pc = "loaded"
    /\ \E namespaceFilter \in filters :
          call' = [op |-> "listDeprecated", arg |-> namespaceFilter,
                   result |-> listDeprecated(store, namespaceFilter)]
    /\ UNCHANGED <<store, pc, corpus, cursor, round, prior, parse>>

GetNamespace(qs) ==
    /\ pc = "loaded"
    /\ \E name \in qs :
          call' = [op |-> "getNamespace", arg |-> name,
                   result |-> getNamespace(store, name)]
    /\ UNCHANGED <<store, pc, corpus, cursor, round, prior, parse>>

\* A variant that sorts the key list of the Map itself.
ListNamespacesInPlace ==
    /\ pc = "loaded"
    /\ call' = [op |-> "listNamespaces", arg |-> <<>>,
                result |-> listNamespaces(store)]
    /\ store' = [store EXCEPT !.namespaces =
                    [j \in 1..Len(store.namespaces) |->
                        [key |-> listNamespaces(store)[j],
                         val |-> MapGet(store.namespaces,
                                        listNamespaces(store)[j])]]]
    /\ UNCHANGED <<pc, corpus, cursor, round, prior, parse>>

ListNamespaces ==
    /\ pc = "loaded"
    /\ call' = [op |-> "listNamespaces", arg |-> <<>>, result |-> listNamespaces(store)]
    /\ UNCHANGED <<store, pc, corpus, cursor, round, prior, parse>>

GetWidgetMethods(qs) ==
    /\ pc = "loaded"
    /\ \E widgetType \in qs :
          call' = [op |-> "getWidgetMethods", arg |-> widgetType,
                   result |-> getWidgetMethods(store, widgetType)]
    /\ UNCHANGED <<store, pc, corpus, cursor, round, prior, parse>>

ListWidgets ==
    /\ pc = "loaded"
    /\ call' = [op |-> "listWidgets", arg |-> <<>>, result |-> listWidgets(store)]
    /\ UNCHANGED <<store, pc, corpus, cursor, round, prior, parse>>

SearchEnums(qs) ==
    /\ pc = "loaded"
    /\ \E query \in qs :
          call' = [op |-> "searchEnums", arg |-> query,
                   result |-> searchEnums(store, query)]
    /\ UNCHANGED <<store, pc, corpus, cursor, round, prior, parse>>

GetStats ==
    /\ pc = "loaded"
    /\ call' = [op |-> "getStats", arg |-> <<>>, result |-> getStats(store)]
    /\ UNCHANGED <<store, pc, corpus, cursor, round, prior, parse>>

\* The arguments of the queries: the empty string, names that match in
\* part or after folding, a name that matches nothing, an inherited name.
ReadQueries == {<<>>, S1("f"), S1("n"), S1("x"), ValueOf}

ReadFilters == {None} \cup {Some(q) : q \in ReadQueries}

\* The functions of the read scenario: each carries the deprecation marker.
ReadInputs ==
    [sigs |-> FuncSigs,
     annotations |-> {[deprecated |-> TRUE, description |-> Null]}]

\* One load() of an extension that has the primary and the widget
\* directory only, and then every query method, in any order.
NextRead ==
    \/ LoadStart(MaxReadCorpus, 1)
    \/ BlizzardPass(MaxReadCorpus, ReadInputs)
    \/ WidgetPass(MaxReadCorpus, ReadInputs)
    \/ LoadData(MaxReadCorpus)
    \/ LookupApi(ReadQueries)
    \/ SearchApi(ReadQueries)
    \/ ListDeprecated(ReadFilters)
    \/ GetNamespace(ReadQueries)
    \/ ListNamespaces
    \/ GetWidgetMethods(ReadQueries)
    \/ ListWidgets
    \/ GetEnum(ReadQueries)
    \/ SearchEnums(ReadQueries)
    \/ GetEvent(ReadQueries)
    \/ GetStats

SpecRead == Init /\ [][NextRead]_vars

----------------------------------------------------------------------------
(* Properties of the query methods as a whole.                             *)

\* No string of the set contains q, letter case aside.
NoMatch(q, strings) ==
    \A k \in strings : ~includes(toLowerCase(k), toLowerCase(q))

\* The namespace of a deprecated record, or its qualified name when it has
\* no namespace: the text listDeprecated compares its filter with.
DeprecatedTexts ==
    {IF store.objs[store.functions[i].val].namespace # Null
     THEN store.objs[store.functions[i].val].namespace
     ELSE store.objs[store.functions[i].val].fullName :
        i \in {j \in 1..Len(store.functions) :
                  store.objs[store.functions[j].val].deprecated}}

\* C11: a query whose argument matches nothing returns the not-found value
\* of its method: the empty list for lookupApi, searchApi, listDeprecated
\* and getNamespace, null for getWidgetMethods, getEnum and getEvent, the
\* empty mapping for searchEnums.
C11_NotFoundIsValue ==
    /\ call.op = "lookupApi" /\ NoMatch(call.arg, Keys) => call.result = <<>>
    /\ call.op = "searchApi" /\ SearchHits(call.arg) = {} => call.result = <<>>
    /\ call.op = "listDeprecated" /\ call.arg # None
           /\ NoMatch(call.arg[1], DeprecatedTexts) /\ call.arg[1] # <<>>
           => call.result = <<>>
    /\ call.op = "listDeprecated" /\ DeprecatedTexts = {} => call.result = <<>>
    /\ call.op = "getNamespace" /\ NoMatch(call.arg, MapKeys(store.namespaces))
           => call.result = <<>>
    /\ call.op = "getWidgetMethods" /\ NoMatch(call.arg, MapKeys(store.widgets))
           => call.result = NullResult
    /\ call.op = "getEnum" /\ NoMatch(call.arg, MapKeys(store.enums))
           => call.result = NullResult
    /\ call.op = "searchEnums" /\ NoMatch(call.arg, MapKeys(store.enums))
           => call.result = <<>>
    /\ call.op = "getEvent"
           /\ (\A k \in MapKeys(store.events) : ~includes(k, toUpperCase(call.arg)))
           => call.result = NullResult

\* C12: after load, a query leaves every table of the store as it was, and
\* the answer it gave is the answer the same query gives again.
C12_QueriesReadOnly ==
    [][pc = "loaded"
        => /\ store' = store
           /\ pc' = "loaded"
           /\ call'.op # "none"
                  => call'.result = Answer(store', call'.op, call'.arg)]_vars

C12_Witness ==
    /\ call.op = "listNamespaces"
    /\ Len(call.result) = 2
    /\ store.namespaces[1].key = call.result[2]
    /\ store.namespaces[2].key = call.result[1]

MethodsOf(owner) ==
    {store.functions[i].val : i \in
        {j \in 1..Len(store.functions) :
            /\ store.objs[store.functions[j].val].isMethod
            /\ store.objs[store.functions[j].val].namespace = owner}}

\* C14: after load, the method list getWidgetMethods gives for a class name
\* of the class table is exactly the indexed records that are methods with
\* that name as namespace, whatever pass indexed them.
C14_ClassOwnsMethods ==
    pc = "loaded"
        => \A owner \in MapKeys(store.widgets) :
               LET methods == getWidgetMethods(store, owner).val.methods
               IN  /\ {methods[j] : j \in 1..Len(methods)} = MethodsOf(owner)
                   /\ Len(methods) = Cardinality(MethodsOf(owner))

\* The methods the widget pass has registered for an owner so far, and the
\* class declarations read for it so far, in the order load read them.
Registered(owner) ==
    SelectSeq(SubSeq(corpus.lua, 1, cursor),
              LAMBDA it : /\ it.pass = "widget" /\ it.kind = "function"
                          /\ FuncOf(it).isMethod
                          /\ FuncOf(it).namespace = owner)

Declared(owner) ==
    SelectSeq(SubSeq(corpus.lua, 1, cursor),
              LAMBDA it : it.kind = "class" /\ it.sig = owner)

\* C15: at every point of load, the method list of an owner is the methods
\* the widget pass registered for it so far, in order, whether a class
\* declaration for the owner came before, after or never; the class-info is
\* that of the last declaration read, absent when there was none.
C15_MethodAccumulation ==
    round = 1 /\ pc # "failed"
        => \A owner \in MapKeys(store.widgets) \cup ClassNames :
               IF Registered(owner) = <<>> /\ Declared(owner) = <<>>
               THEN ~MapHas(store.widgets, owner)
               ELSE /\ MapHas(store.widgets, owner)
                    /\ LET w == MapGet(store.widgets, owner)
                       IN  /\ [j \in 1..Len(w.methods) |->
                                  store.objs[w.methods[j]].fullName]
                                 = [j \in 1..Len(Registered(owner)) |->
                                       Registered(owner)[j].sig]
                           /\ w.classInfo =
                                  IF Declared(owner) = <<>> THEN None
                                  ELSE Some(ClassOf(Declared(owner)[
                                           Len(Declared(owner))]))

C15_Witness ==
    /\ pc = "framexml"
    /\ Len(corpus.lua) = 3
    /\ corpus.lua[1].kind = "class" /\ corpus.lua[1].inherits = <<>>
    /\ corpus.lua[2].pass = "widget" /\ corpus.lua[2].kind = "function"
    /\ corpus.lua[3].kind = "class" /\ corpus.lua[3].inherits # <<>>
    /\ MapHas(store.widgets, S1("N"))
    /\ Len(MapGet(store.widgets, S1("N")).methods) = 1
    /\ MapGet(store.widgets, S1("N")).classInfo = Some(ClassOf(corpus.lua[3]))

(***************************************************************************)
(* Final enrichment scenario: the primary pass over functions named f, N.f *)
(* and valueOf, with any of the version tables, then the rest of load.     *)
(***************************************************************************)
EnrichInputs ==
    [sigs |-> {S1("f"), S3("N", ".", "f"), ValueOf}, annotations |-> {Plain}]

NextEnrich ==
    \/ LoadStart(MaxCorpus, 1)
    \/ BlizzardPass(MaxCorpus, EnrichInputs)
    \/ LoadData(MaxCorpus)

SpecEnrich == Init /\ [][NextEnrich]_vars

(***************************************************************************)
(* C16: after load, the version tags of every indexed function are the     *)
(* version-table entry of its short name if that entry exists, else the    *)
(* entry of its qualified name if that exists, else the empty set.         *)
(***************************************************************************)
C16_FinalEnrichment ==
    pc = "loaded" =>
        \A i \in 1..Len(store.functions) :
            LET func == store.objs[store.functions[i].val]
            IN  func.gameVersions =
                    IF MapHas(store.flavorMap, func.name)
                    THEN MapGet(store.flavorMap, func.name)
                    ELSE IF MapHas(store.flavorMap, func.fullName)
                    THEN MapGet(store.flavorMap, func.fullName)
                    ELSE <<>>

(***************************************************************************)
(* Deprecation listing scenario: the primary pass over functions with and  *)
(* without the deprecation marker, the rest of load, then listDeprecated   *)
(* with no filter, an empty one, and filters in either letter case.        *)
(***************************************************************************)
DeprecatedFilters ==
    {None, Some(<<>>), Some(S1("f")), Some(S1("F")), Some(S1("n")),
     Some(S1("N")), Some(S1("x"))}

NextDeprecated ==
    \/ LoadStart(MaxCorpus, 1)
    \/ BlizzardPass(MaxCorpus, LoadInputs)
    \/ LoadData(MaxCorpus)
    \/ ListDeprecated(DeprecatedFilters)

SpecDeprecated == Init /\ [][NextDeprecated]_vars

\* The positions of the function index whose record is deprecated and, when
\* a filter is given, whose namespace (qualified name when it has no
\* namespace) contains the filter, letter case ignored.
DeprecatedAt(f) ==
    {i \in 1..Len(store.functions) :
        LET func == store.objs[store.functions[i].val]
        IN  /\ func.deprecated
            /\ f # None =>
                 includes(toLowerCase(IF func.namespace # Null
                                      THEN func.namespace ELSE func.fullName),
                          toLowerCase(f[1]))}

----------------------------------------------------------------------------
(* src/parsers/lua-annotations.mjs, line by line.  A line is the sequence  *)
(* of its characters; parseLuaFile trims each line before it tests it.     *)

\* \w and \s of the regular expressions.
WordChars ==
    {"a", "b", "c", "d", "e", "f", "g", "h", "i", "j", "k", "l", "m", "n",
      "o", "p", "q", "r", "s", "t", "u", "v", "w", "x", "y", "z", "A", "B",
      "C", "D", "E", "F", "G", "H", "I", "J", "K", "L", "M", "N", "O", "P",
      "Q", "R", "S", "T", "U", "V", "W", "X", "Y", "Z", "0", "1", "2", "3",
      "4", "5", "6", "7", "8", "9", "_"}

IsSpace(c) == c \in {" ", "\t"}

\* The character classes the regular expressions repeat.
InClass(cls, c) ==
    CASE cls = "\\s" -> IsSpace(c)
      [] cls = "\\S" -> ~IsSpace(c)
      [] cls = "\\w" -> c \in WordChars
      [] cls = "[\\w.]" -> c \in WordChars \/ c = "."
      [] cls = "[\\w.:]" -> c \in WordChars \/ c \in {".", ":"}
      [] cls = "[\\w.,\\s]" ->
             c \in WordChars \/ c \in {".", ","} \/ IsSpace(c)

startsWith(s, p) == Len(s) >= Len(p) /\ SubSeq(s, 1, Len(p)) = p

\* The end of the longest run of characters of a class that starts at
\* position i: the first position from i on that is past the end of s or
\* holds a character outside the class (a greedy quantifier).
RunEnd(s, i, cls) ==
    CHOOSE j \in i..(Len(s) + 1) :
        /\ j = Len(s) + 1 \/ ~InClass(cls, s[j])
        /\ \A k \in i..(j - 1) : InClass(cls, s[k])

\* The first position from i on that holds ch, or 0.
IndexFrom(s, ch, i) ==
    IF \E j \in i..Len(s) : s[j] = ch
    THEN CHOOSE j \in i..Len(s) : s[j] = ch /\ \A k \in i..(j - 1) : s[k] # ch
    ELSE 0

\* str.trim()
trim(s) ==
    IF \A i \in 1..Len(s) : IsSpace(s[i]) THEN <<>>
    ELSE SubSeq(s, RunEnd(s, 1, "\\s"),
                CHOOSE j \in 1..Len(s) :
                    ~IsSpace(s[j]) /\ \A k \in (j + 1)..Len(s) : IsSpace(s[k]))

\* str.split(',')
RECURSIVE split(_)
split(s) ==
    IF IndexFrom(s, ",", 1) = 0 THEN <<s>>
    ELSE <<SubSeq(s, 1, IndexFrom(s, ",", 1) - 1)>>
             \o split(SubSeq(s, IndexFrom(s, ",", 1) + 1, Len(s)))

Dashes == <<"-", "-", "-">>

AtDeprecated == <<"@", "d", "e", "p", "r", "e", "c", "a", "t", "e", "d">>

DeprecatedByOpen ==
    <<"D", "e", "p", "r", "e", "c", "a", "t", "e", "d", " ", "b", "y", " ",
      "[">>

DocumentationOpen ==
    <<"[", "D", "o", "c", "u", "m", "e", "n", "t", "a", "t", "i", "o", "n",
      "]", "(">>

AtParam == <<"@", "p", "a", "r", "a", "m">>

AtReturn == <<"@", "r", "e", "t", "u", "r", "n">>

AtClass == <<"-", "-", "-", "@", "c", "l", "a", "s", "s">>

AtField == <<"-", "-", "-", "@", "f", "i", "e", "l", "d">>

FunctionKeyword == <<"f", "u", "n", "c", "t", "i", "o", "n", " ">>

EndKeyword == <<"e", "n", "d">>

\* line.replace(/^---\s?/, '')
stripDashes(line) ==
    IF ~startsWith(line, Dashes) THEN line
    ELSE IF Len(line) > 3 /\ IsSpace(line[4]) THEN SubSeq(line, 5, Len(line))
    ELSE SubSeq(line, 4, Len(line))

\* /^Deprecated by \[([^\]]+)\]\(([^)]+)\)/
deprecMatch(text) ==
    LET from == Len(DeprecatedByOpen) + 1
        bracket == IndexFrom(text, "]", from)
        close == IndexFrom(text, ")", bracket + 2)
    IN  IF /\ startsWith(text, DeprecatedByOpen)
           /\ bracket > from
           /\ bracket < Len(text)
           /\ text[bracket + 1] = "("
           /\ close > bracket + 2
        THEN Some([replacedBy |-> SubSeq(text, from, bracket - 1),
                   replacedByUrl |-> SubSeq(text, bracket + 2, close - 1)])
        ELSE None

\* /^\[Documentation\]\(([^)]+)\)/, and the same after "---" for a class.
docMatch(text, open) ==
    LET from == Len(open) + 1
        close == IndexFrom(text, ")", from)
    IN  IF startsWith(text, open) /\ close > from
        THEN Some(SubSeq(text, from, close - 1))
        ELSE None

\* /^@param\s+(\w+)(\?)?\s+(\S+)\s*(.*)?$/, and /^---@field .../ for a class.
paramMatch(text, tag) ==
    LET name == RunEnd(text, Len(tag) + 1, "\\s")
        mark == RunEnd(text, name, "\\w")
        optional == mark <= Len(text) /\ text[mark] = "?"
        gap == IF optional THEN mark + 1 ELSE mark
        type == RunEnd(text, gap, "\\s")
        rest == RunEnd(text, type, "\\S")
    IN  IF /\ startsWith(text, tag)
           /\ name > Len(tag) + 1
           /\ mark > name
           /\ type > gap
           /\ rest > type
        THEN Some([name |-> SubSeq(text, name, mark - 1),
                   optional |-> optional,
                   type |-> SubSeq(text, type, rest - 1),
                   description |->
                       SubSeq(text, RunEnd(text, rest, "\\s"), Len(text))])
        ELSE None

\* /^@return\s+(\S+)\s*(\w+)?\s*(.*)?$/
returnMatch(text) ==
    LET type == RunEnd(text, Len(AtReturn) + 1, "\\s")
        gap == RunEnd(text, type, "\\S")
        name == RunEnd(text, gap, "\\s")
        rest == RunEnd(text, name, "\\w")
    IN  IF /\ startsWith(text, AtReturn)
           /\ type > Len(AtReturn) + 1
           /\ gap > type
        THEN Some([type |-> SubSeq(text, type, gap - 1),
                   name |-> SubSeq(text, name, rest - 1),
                   description |->
                       SubSeq(text, RunEnd(text, rest, "\\s"), Len(text))])
        ELSE None

AnnotationStart ==
    [deprecated |-> FALSE, replacedBy |-> Null, replacedByUrl |-> Null,
     wikiUrl |-> Null, params |-> <<>>, returns |-> <<>>, descParts |-> <<>>]

\* A loop body that drops every line starting with "@" or "#" before it
\* tests any other pattern.
AnnotationStepMarkerFirst(result, line) ==
    LET text == stripDashes(line)
    IN  IF startsWith(text, S1("@")) \/ startsWith(text, S1("#"))
        THEN result
        ELSE IF deprecMatch(text) # None
        THEN [result EXCEPT !.replacedBy = deprecMatch(text)[1].replacedBy,
                            !.replacedByUrl = deprecMatch(text)[1].replacedByUrl]
        ELSE IF docMatch(text, DocumentationOpen) # None
        THEN [result EXCEPT !.wikiUrl = docMatch(text, DocumentationOpen)[1]]
        ELSE IF trim(text) # <<>>
        THEN [result EXCEPT !.descParts = Append(@, trim(text))]
        ELSE result

\* One iteration of the line loop of parseAnnotationBlock.
AnnotationStep(result, line) ==
    LET text == stripDashes(line)
    IN  IF text = AtDeprecated
        THEN [result EXCEPT !.deprecated = TRUE]
        ELSE IF deprecMatch(text) # None
        THEN [result EXCEPT !.replacedBy = deprecMatch(text)[1].replacedBy,
                            !.replacedByUrl = deprecMatch(text)[1].replacedByUrl]
        ELSE IF docMatch(text, DocumentationOpen) # None
        THEN [result EXCEPT !.wikiUrl = docMatch(text, DocumentationOpen)[1]]
        ELSE IF paramMatch(text, AtParam) # None
        THEN [result EXCEPT !.params = Append(@, paramMatch(text, AtParam)[1])]
        ELSE IF returnMatch(text) # None
        THEN [result EXCEPT !.returns = Append(@, returnMatch(text)[1])]
        ELSE IF startsWith(text, S1("@")) \/ startsWith(text, S1("#"))
        THEN result
        ELSE IF trim(text) # <<>>
        THEN [result EXCEPT !.descParts = Append(@, trim(text))]
        ELSE result

RECURSIVE AnnotationLoop(_, _)
AnnotationLoop(result, lines) ==
    IF lines = <<>> THEN result
    ELSE AnnotationLoop(AnnotationStep(result, Head(lines)), Tail(lines))

\* parseAnnotationBlock(lines, funcLine): the loop, then the description.
parseAnnotationBlock(lines) ==
    LET result == AnnotationLoop(AnnotationStart, lines)
    IN  [deprecated |-> result.deprecated,
         replacedBy |-> result.replacedBy,
         replacedByUrl |-> result.replacedByUrl,
         wikiUrl |-> result.wikiUrl,
         description |-> IF Len(result.descParts) > 0
                         THEN join(result.descParts, S1(" ")) ELSE Null,
         params |-> result.params,
         returns |-> result.returns]

\* parseFunctionLine(line) on the whole line: "function", the signature,
\* "(", the arguments up to the first ")", ")" and "end".
parseFunctionText(line) ==
    LET sig == RunEnd(line, Len(FunctionKeyword), "\\s")
        gap == RunEnd(line, sig, "[\\w.:]")
        paren == RunEnd(line, gap, "\\s")
        close == IndexFrom(line, ")", paren + 1)
    IN  IF /\ startsWith(line, SubSeq(FunctionKeyword, 1, Len(FunctionKeyword) - 1))
           /\ sig > Len(FunctionKeyword)
           /\ paren <= Len(line)
           /\ line[paren] = "("
           /\ close > 0
           /\ SubSeq(line, RunEnd(line, close + 1, "\\s"), Len(line)) = EndKeyword
        THEN parseFunctionLine(SubSeq(line, sig, gap - 1))
        ELSE NotAFunction

\* /^---@class\s+([\w.]+)(?:\s*:\s*([\w.,\s]+))?/ : the name and the text of
\* the parent list (None when the optional group does not take part; when no
\* parent character follows the spaces after ":", the group gives back the
\* last of those spaces and matches it).
classMatch(aLine) ==
    LET name == RunEnd(aLine, Len(AtClass) + 1, "\\s")
        gap == RunEnd(aLine, name, "[\\w.]")
        colon == RunEnd(aLine, gap, "\\s")
        list == RunEnd(aLine, colon + 1, "\\s")
        rest == RunEnd(aLine, list, "[\\w.,\\s]")
    IN  IF startsWith(aLine, AtClass) /\ name > Len(AtClass) + 1 /\ gap > name
        THEN Some([name |-> SubSeq(aLine, name, gap - 1),
                   parents |->
                       IF colon <= Len(aLine) /\ aLine[colon] = ":"
                       THEN IF rest > list
                            THEN Some(SubSeq(aLine, list, rest - 1))
                            ELSE IF list > colon + 1
                            THEN Some(S1(aLine[list - 1]))
                            ELSE None
                       ELSE None])
        ELSE None

\* The classDef objects the loop over annotationLines pushes: one for each
\* line that matches @class, each with the fields and the documentation
\* link of the whole block.
ClassDefs(annotationLines) ==
    LET classLines == SelectSeq(annotationLines,
                                LAMBDA aLine : classMatch(aLine) # None)
        fieldLines == SelectSeq(annotationLines,
                                LAMBDA fLine : paramMatch(fLine, AtField) # None)
        docLines == SelectSeq(annotationLines,
                              LAMBDA fLine :
                                  docMatch(fLine, Dashes \o DocumentationOpen)
                                      # None)
        inherits(parents) ==
            IF parents # None /\ parents[1] # <<>>
            THEN [k \in 1..Len(split(parents[1])) |-> trim(split(parents[1])[k])]
            ELSE <<>>
    IN  [n \in 1..Len(classLines) |->
            [name |-> classMatch(classLines[n])[1].name,
             inherits |-> inherits(classMatch(classLines[n])[1].parents),
             fields |-> [k \in 1..Len(fieldLines) |->
                            paramMatch(fieldLines[k], AtField)[1]],
             wikiUrl |-> IF docLines = <<>> THEN Null
                         ELSE docMatch(docLines[Len(docLines)],
                                       Dashes \o DocumentationOpen)[1]]]

LuaStart == [annotationLines |-> <<>>, functions |-> <<>>, classes |-> <<>>]

\* One iteration of the line loop of parseLuaFile.  The function object is
\* { ...funcInfo, ...annotation }; deprecatedInPatch, source and gameVersions
\* are unset until load() and _indexFunction set them.
LuaStep(p, rawLine) ==
    LET line == trim(rawLine)
        funcInfo == parseFunctionText(line)
        annotation == parseAnnotationBlock(p.annotationLines)
    IN  IF startsWith(line, Dashes)
        THEN [p EXCEPT !.annotationLines = Append(@, line)]
        ELSE IF startsWith(line, FunctionKeyword)
        THEN [p EXCEPT
                 !.functions =
                     IF funcInfo # NotAFunction
                     THEN Append(@, [fullName |-> funcInfo.fullName,
                                     namespace |-> funcInfo.namespace,
                                     name |-> funcInfo.name,
                                     isMethod |-> funcInfo.isMethod,
                                     deprecated |-> annotation.deprecated,
                                     replacedBy |-> annotation.replacedBy,
                                     replacedByUrl |-> annotation.replacedByUrl,
                                     wikiUrl |-> annotation.wikiUrl,
                                     description |-> annotation.description,
                                     params |-> annotation.params,
                                     returns |-> annotation.returns,
                                     deprecatedInPatch |-> None,
                                     source |-> Null,
                                     gameVersions |-> <<>>])
                     ELSE @,
                 !.annotationLines = <<>>]
        ELSE [p EXCEPT !.classes = @ \o ClassDefs(p.annotationLines),
                       !.annotationLines = <<>>]

\* for (const func of functions) this._indexFunction(func, 'blizzard')
RECURSIVE IndexFunctions(_, _)
IndexFunctions(st, functions) ==
    IF functions = <<>> THEN st
    ELSE IndexFunctions(_indexFunction(st, Head(functions), "blizzard"),
                        Tail(functions))

\* for (const cls of classes) this._indexClass(cls)
RECURSIVE IndexClasses(_, _)
IndexClasses(st, classes) ==
    IF classes = <<>> THEN st
    ELSE IndexClasses(_indexClass(st, Head(classes)), Tail(classes))

(***************************************************************************)
(* Parsing scenarios: parseLuaFile reads a file of the primary directory   *)
(* line by line and returns at its end; load() indexes what it returned.   *)
(* After the return, parse holds the functions and classes load() took     *)
(* from the result.                                                        *)
(***************************************************************************)
InitLua ==
    /\ store = constructor
    /\ pc = "parseLuaFile"
    /\ corpus = [NoCorpus EXCEPT !.root = TRUE]
    /\ cursor = 0
    /\ round = 1
    /\ prior = IndexView(constructor)
    /\ call = NoCall
    /\ parse = [fn |-> "parseLuaFile", lines |-> <<>>, p |-> LuaStart]

LuaLineStep(samples) ==
    /\ pc = "parseLuaFile"
    /\ Len(parse.lines) < MaxLuaLines
    /\ \E rawLine \in samples :
          parse' = [parse EXCEPT !.lines = Append(@, rawLine),
                                 !.p = LuaStep(@, rawLine)]
    /\ UNCHANGED <<store, pc, corpus, cursor, round, prior, call>>

LuaReturn ==
    /\ pc = "parseLuaFile"
    /\ store' = IndexClasses(IndexFunctions(store, parse.p.functions),
                             parse.p.classes)
    /\ parse' = [parse EXCEPT !.fn = "load"]
    /\ pc' = "blizzard"
    /\ UNCHANGED <<corpus, cursor, round, prior, call>>

\* Lines of an annotation file.
LineDeprecated ==
    <<"-", "-", "-", "@", "d", "e", "p", "r", "e", "c", "a", "t", "e", "d">>

LineDeprecatedBy ==
    <<"-", "-", "-", "D", "e", "p", "r", "e", "c", "a", "t", "e", "d", " ",
      "b", "y", " ", "[", "N", "]", "(", "U", ")">>

LineDeprecatedByOther ==
    <<"-", "-", "-", " ", "D", "e", "p", "r", "e", "c", "a", "t", "e", "d",
      " ", "b", "y", " ", "[", "M", "]", "(", "V", ")">>

LineDocumentation ==
    <<"-", "-", "-", "[", "D", "o", "c", "u", "m", "e", "n", "t", "a", "t",
      "i", "o", "n", "]", "(", "U", ")">>

LineDocumentationOther ==
    <<"-", "-", "-", " ", "[", "D", "o", "c", "u", "m", "e", "n", "t", "a",
      "t", "i", "o", "n", "]", "(", "V", ")">>

LineParam ==
    <<"-", "-", "-", "@", "p", "a", "r", "a", "m", " ", "a", "?", " ", "t",
      " ", "d">>

LineReturn ==
    <<"-", "-", "-", "@", "r", "e", "t", "u", "r", "n", " ", "t", " ", "a">>

LineMeta ==
    <<"-", "-", "-", "@", "n", "o", "d", "i", "s", "c", "a", "r", "d">>

LineHeading == <<"-", "-", "-", "#", "h">>

LineText == <<" ", " ", "-", "-", "-", " ", "d", " ", "e", " ">>

LineDashes == <<"-", "-", "-">>

LineFunction ==
    <<"f", "u", "n", "c", "t", "i", "o", "n", " ", "N", ".", "f", "(", "a",
      ")", " ", "e", "n", "d">>

LineBlank == <<>>

LineClass == <<"-", "-", "-", "@", "c", "l", "a", "s", "s", " ", "N">>

LineClassParents ==
    <<"-", "-", "-", "@", "c", "l", "a", "s", "s", " ", "M", " ", ":", " ",
      "P", ",", " ", "Q">>

LineField ==
    <<"-", "-", "-", "@", "f", "i", "e", "l", "d", " ", "a", "?", " ", "t",
      " ", "d">>

LineLocal == <<"l", "o", "c", "a", "l", " ", "N", " ", "=", " ", "{", "}">>

AnnotationLines ==
    {LineDeprecated, LineDeprecatedBy, LineDeprecatedByOther, LineDocumentation,
     LineDocumentationOther, LineParam, LineReturn, LineMeta, LineHeading,
     LineText, LineDashes, LineFunction, LineBlank}

NextAnnotation == LuaLineStep(AnnotationLines) \/ LuaReturn

SpecAnnotation == InitLua /\ [][NextAnnotation]_vars

ClassLines ==
    {LineClass, LineClassParents, LineField, LineDocumentation, LineText,
     LineFunction, LineLocal, LineBlank}

NextClass == LuaLineStep(ClassLines) \/ LuaReturn

SpecClass == InitLua /\ [][NextClass]_vars

\* The comment block that is pending when line i of the file is read: the
\* trimmed lines of the longest run of "---" lines that ends just before i.
BlockBefore(lines, i) ==
    LET IsComment(j) == startsWith(trim(lines[j]), Dashes)
        first == CHOOSE k \in 1..i :
                     /\ \A j \in k..(i - 1) : IsComment(j)
                     /\ k = 1 \/ ~IsComment(k - 1)
    IN  [j \in 1..(i - first) |-> trim(lines[first + j - 1])]

\* The texts of a block, "---" and one space after it removed.
Texts(block) == [j \in 1..Len(block) |-> stripDashes(block[j])]

\* The last element of a sequence, or a default when it is empty.
LastOr(values, default) ==
    IF values = <<>> THEN default ELSE values[Len(values)]

\* C18: the record of a function line is read off its comment block pattern
\* by pattern: deprecated iff a line is the bare marker; replacement name
\* and URL from the last "Deprecated by [Name](url)" line; documentation URL
\* from the last "[Documentation](url)" line; one parameter per @param line
\* and one return per @return line, in order; the description is the
\* remaining non-blank lines that do not start with "@" or "#", trimmed and
\* joined by single spaces, so a line an earlier pattern took never reaches
\* a later one.
C18_AnnotationBlockOrder ==
    LET n == Len(parse.lines)
        text == Texts(BlockBefore(parse.lines, n))
        IsFree(t) ==
            /\ t # AtDeprecated
            /\ deprecMatch(t) = None
            /\ docMatch(t, DocumentationOpen) = None
            /\ paramMatch(t, AtParam) = None
            /\ returnMatch(t) = None
            /\ ~startsWith(t, S1("@")) /\ ~startsWith(t, S1("#"))
            /\ trim(t) # <<>>
        replaced == SelectSeq(text, LAMBDA t : deprecMatch(t) # None)
        documented == SelectSeq(text,
                                LAMBDA t : docMatch(t, DocumentationOpen) # None)
        params == SelectSeq(text, LAMBDA t : paramMatch(t, AtParam) # None)
        returns == SelectSeq(text, LAMBDA t : returnMatch(t) # None)
        free == SelectSeq(text, IsFree)
    IN  (/\ parse.fn = "parseLuaFile"
         /\ n > 0
         /\ parseFunctionText(trim(parse.lines[n])) # NotAFunction)
        => /\ Len(parse.p.functions) > 0
           /\ LET func == parse.p.functions[Len(parse.p.functions)]
              IN  /\ func.deprecated = (\E j \in 1..Len(text) :
                                            text[j] = AtDeprecated)
                  /\ func.replacedBy =
                         LastOr([j \in 1..Len(replaced) |->
                                    deprecMatch(replaced[j])[1].replacedBy], Null)
                  /\ func.replacedByUrl =
                         LastOr([j \in 1..Len(replaced) |->
                                    deprecMatch(replaced[j])[1].replacedByUrl],
                                Null)
                  /\ func.wikiUrl =
                         LastOr([j \in 1..Len(documented) |->
                                    docMatch(documented[j], DocumentationOpen)[1]],
                                Null)
                  /\ func.params = [j \in 1..Len(params) |->
                                       paramMatch(params[j], AtParam)[1]]
                  /\ func.returns = [j \in 1..Len(returns) |->
                                        returnMatch(returns[j])[1]]
                  /\ func.description =
                         IF free = <<>> THEN Null
                         ELSE join([j \in 1..Len(free) |-> trim(free[j])],
                                   S1(" "))

C18_Witness ==
    /\ parse.fn = "parseLuaFile"
    /\ parse.lines = <<LineDeprecated, LineDeprecatedBy, LineFunction>>
    /\ Len(parse.p.functions) = 1
    /\ parse.p.functions[1].fullName = <<"N", ".", "f">>
    /\ parse.p.functions[1].deprecated
    /\ parse.p.functions[1].replacedBy = S1("N")
    /\ parse.p.functions[1].replacedByUrl = S1("U")
    /\ parse.p.functions[1].description = Null

\* The class records a comment block declares: one for each @class line, in
\* order, with its parent list split at commas and trimmed, and with the
\* @field lines of the block as its fields.
Declares(block, classes) ==
    LET named == SelectSeq(block, LAMBDA l : classMatch(l) # None)
        fields == SelectSeq(block, LAMBDA l : paramMatch(l, AtField) # None)
    IN  /\ Len(classes) = Len(named)
        /\ \A k \in 1..Len(named) :
               /\ classes[k].name = classMatch(named[k])[1].name
               /\ classes[k].inherits =
                      (IF classMatch(named[k])[1].parents = None THEN <<>>
                       ELSE [m \in 1..Len(split(classMatch(named[k])[1].parents[1]))
                                |-> trim(split(classMatch(named[k])[1].parents[1])[m])])
               /\ classes[k].fields =
                      [m \in 1..Len(fields) |-> paramMatch(fields[m], AtField)[1]]

\* C19: when a comment block ends, at a function line, at any other line
\* that is not a comment, or at the end of the file, the class records of
\* its @class lines are the last records of the class list.
C19_ClassWhateverFollows ==
    LET n == Len(parse.lines)
        ended == IF parse.fn = "load" THEN n + 1 ELSE n
        block == BlockBefore(parse.lines, ended)
        declared == Len(SelectSeq(block, LAMBDA l : classMatch(l) # None))
        classes == parse.p.classes
    IN  (\/ parse.fn = "load"
         \/ /\ parse.fn = "parseLuaFile"
            /\ n > 0
            /\ ~startsWith(trim(parse.lines[n]), Dashes))
        => /\ Len(classes) >= declared
           /\ Declares(block, SubSeq(classes, Len(classes) - declared + 1,
                                     Len(classes)))

\* Lines i..j are a capture that closed: an @enum line, a closing line, and
\* neither of the two in between.
IsCapture(lines, i, j) ==
    /\ i < j
    /\ lines[i].k = "enum"
    /\ lines[j].k = "close"
    /\ \A m \in (i + 1)..(j - 1) : lines[m].k \notin {"enum", "close"}

\* The key and value pairs a closed capture holds: for each key, that of its
\* last key line inside the capture.
Members(lines, i, j) ==
    {<<lines[m].name, EnumValue(lines[m])>> :
        m \in {n \in (i + 1)..(j - 1) :
                  /\ kvMatch(lines[n])
                  /\ \A o \in (n + 1)..(j - 1) :
                         ~(kvMatch(lines[o]) /\ lines[o].name = lines[n].name)}}

\* C20: at every point of the scan of an enum file, and in the table load
\* stores, the names of the table are the names of the captures that closed,
\* and the members of a name are the key lines of the last closed capture of
\* that name and nothing else: an abandoned capture leaves neither its name
\* nor its members, and key lines outside a capture leave nothing.
C20_EnumCommitOnClose ==
    LET scanning == pc = "parseEnumFile"
        lines == IF scanning THEN parse.lines ELSE corpus.enum[1]
        enums == IF scanning THEN parse.p.enums ELSE store.enums
        Closed(name) ==
            {<<i, j>> \in (1..Len(lines)) \X (1..Len(lines)) :
                IsCapture(lines, i, j) /\ lines[i].name = name}
    IN  (scanning \/ (pc = "loaded" /\ corpus.enum # None))
        => /\ \A name \in EnumNames :
                  MapHas(enums, name) <=> Closed(name) # {}
           /\ \A e \in 1..Len(enums) :
                  /\ enums[e].key \in EnumNames
                  /\ \E c \in Closed(enums[e].key) :
                         /\ \A d \in Closed(enums[e].key) : d[2] <= c[2]
                         /\ {<<enums[e].val[m].key, enums[e].val[m].val>> :
                                m \in 1..Len(enums[e].val)}
                                = Members(lines, c[1], c[2])
                         /\ Len(enums[e].val)
                                = Cardinality(Members(lines, c[1], c[2]))

C20_Witness ==
    /\ pc = "parseEnumFile"
    /\ Len(parse.lines) = 4
    /\ parse.lines[1].k = "enum" /\ parse.lines[1].name = S1("E")
    /\ kvMatch(parse.lines[2])
    /\ parse.lines[3].k = "enum" /\ parse.lines[3].name = <<"E", "A">>
    /\ parse.lines[4].k = "close"
    /\ ~MapHas(parse.p.enums, S1("E"))
    /\ MapHas(parse.p.enums, <<"E", "A">>)
    /\ MapGet(parse.p.enums, <<"E", "A">>) = <<>>

\* C21: at every point of load and after it, every record of the list
\* getNamespace gives for a name of the namespace table is a non-method
\* record of that namespace and is the record the function index holds
\* under its qualified name, and no list holds two records with the same
\* qualified name.
C21_NamespaceAgreesWithIndex ==
    \A ns \in MapKeys(store.namespaces) :
        LET funcs == getNamespace(store, ns)
        IN  /\ \A k \in 1..Len(funcs) :
                   /\ ~store.objs[funcs[k]].isMethod
                   /\ store.objs[funcs[k]].namespace = ns
                   /\ MapHas(store.functions, store.objs[funcs[k]].fullName)
                   /\ MapGet(store.functions, store.objs[funcs[k]].fullName)
                          = funcs[k]
            /\ \A a, b \in 1..Len(funcs) :
                   store.objs[funcs[a]].fullName = store.objs[funcs[b]].fullName
                       => a = b

\* C22: when the query of getEnum is not a key of the enum table but some
\* enum name equals it case-insensitively, the result is the one-entry
\* wrapper keyed by a name that equals the query case-insensitively, also
\* when a name that only contains the query was inserted earlier.
C22_ExactOverPartial ==
    (/\ call.op = "getEnum"
     /\ ~MapHas(store.enums, call.arg)
     /\ \E key \in MapKeys(store.enums) :
            toLowerCase(key) = toLowerCase(call.arg))
    => /\ call.result.kind = "wrapper"
       /\ toLowerCase(call.result.key) = toLowerCase(call.arg)
       /\ call.result.val = MapGet(store.enums, call.result.key)

====
